---- MODULE Spec2Model ----
(***************************************************************************)
(* Model of sw/kv260_fanctrl.py: the AxiPwmCtrl userspace driver that      *)
(* programs the two channels of a Xilinx AXI timer for PWM through a       *)
(* register port (drv.read / drv.write).                                   *)
(*                                                                         *)
(* Registers are a memory: a read returns the value last written.  Every   *)
(* driver operation is one action; the accesses it made are recorded, in   *)
(* order, in the variable `call`.  Python floats are IEEE-754 doubles and  *)
(* are modelled exactly (53-bit significands held as multi-limb naturals). *)
(***************************************************************************)
EXTENDS Integers, Sequences, FiniteSets

(***************************************************************************)
(* Address offsets (lines 4-17).                                           *)
(***************************************************************************)
TCSR0_OF == 0
TLR0_OF == 4
TCR0_OF == 8
TCSR1_OF == 16
TLR1_OF == 20
TCR1 == 24

Offsets == {TCSR0_OF, TLR0_OF, TCR0_OF, TCSR1_OF, TLR1_OF, TCR1}

(***************************************************************************)
(* Python's integer operators 1 << n, a | b and a & ~b on non-negative     *)
(* integers, computed bit by bit.                                          *)
(***************************************************************************)
RECURSIVE BitOr(_, _)
BitOr(a, b) ==
    IF a = 0 THEN b
    ELSE IF b = 0 THEN a
    ELSE (IF a % 2 = 1 \/ b % 2 = 1 THEN 1 ELSE 0) + 2 * BitOr(a \div 2, b \div 2)

RECURSIVE BitAndNot(_, _)
BitAndNot(a, m) ==
    IF a = 0 THEN 0
    ELSE (IF a % 2 = 1 /\ m % 2 = 0 THEN 1 ELSE 0) + 2 * BitAndNot(a \div 2, m \div 2)

RECURSIVE BitAnd(_, _)
BitAnd(a, b) ==
    IF a = 0 \/ b = 0 THEN 0
    ELSE (IF a % 2 = 1 /\ b % 2 = 1 THEN 1 ELSE 0) + 2 * BitAnd(a \div 2, b \div 2)

_bit(position) == 2 ^ position

\* value + mask in place of value | mask: carries when the bit is already set.
_set_Add(value, mask) == value + mask

_set(value, mask) == BitOr(value, mask)

\* value ^ mask in place of value & ~mask: toggles the bits instead of clearing them.
_unset_Toggle(value, mask) == BitOr(BitAndNot(value, mask), BitAndNot(mask, value))

_unset(value, mask) == BitAndNot(value, mask)

(***************************************************************************)
(* TCSR bit fields (lines 28-52).                                          *)
(***************************************************************************)
TCSR_CASC == _bit(11)
TCSR_ENALL == _bit(10)
TCSR_PWMA == _bit(9)
TCSR_TINT == _bit(8)
TCSR_ENT == _bit(7)
TCSR_ENIT == _bit(6)
TCSR_LOAD == _bit(5)
TCSR_ARHT == _bit(4)
TCSR_CAPT == _bit(3)
TCSR_GENT == _bit(2)
TCSR_UDT == _bit(1)
TCSR_MDT == _bit(0)

\* self.max_count, set once by __init__ (line 71).
max_count == 255

(***************************************************************************)
(* Naturals of any size, as little-endian sequences of limbs below Base    *)
(* with no leading zero limb (<<>> is 0).  They carry the significands of  *)
(* doubles and the exact sums and products before rounding.                *)
(***************************************************************************)
Base == 2 ^ 15

RECURSIVE BTrim(_)
BTrim(a) ==
    IF a = <<>> THEN <<>>
    ELSE IF a[Len(a)] = 0 THEN BTrim(SubSeq(a, 1, Len(a) - 1))
    ELSE a

RECURSIVE BFromInt(_)
BFromInt(n) == IF n = 0 THEN <<>> ELSE <<n % Base>> \o BFromInt(n \div Base)

RECURSIVE BToInt(_)
BToInt(a) == IF a = <<>> THEN 0 ELSE a[1] + Base * BToInt(Tail(a))

Limb(a, i) == IF i <= Len(a) THEN a[i] ELSE 0

\* -1, 0, 1 as a < b, a = b, a > b
RECURSIVE BCmpFrom(_, _, _)
BCmpFrom(a, b, i) ==
    IF i = 0 THEN 0
    ELSE IF Limb(a, i) < Limb(b, i) THEN -1
    ELSE IF Limb(a, i) > Limb(b, i) THEN 1
    ELSE BCmpFrom(a, b, i - 1)

BCmp(a, b) == BCmpFrom(a, b, IF Len(a) > Len(b) THEN Len(a) ELSE Len(b))

RECURSIVE BAddC(_, _, _)
BAddC(a, b, c) ==
    IF a = <<>> /\ b = <<>> THEN (IF c = 0 THEN <<>> ELSE <<c>>)
    ELSE LET s == Limb(a, 1) + Limb(b, 1) + c
         IN  <<s % Base>> \o BAddC(IF a = <<>> THEN <<>> ELSE Tail(a),
                                   IF b = <<>> THEN <<>> ELSE Tail(b),
                                   s \div Base)

BAdd(a, b) == BAddC(a, b, 0)

\* a - b for a >= b
RECURSIVE BSubC(_, _, _)
BSubC(a, b, c) ==
    IF a = <<>> THEN <<>>
    ELSE LET s == a[1] - Limb(b, 1) - c
         IN  <<s % Base>> \o BSubC(Tail(a), IF b = <<>> THEN <<>> ELSE Tail(b),
                                   IF s < 0 THEN 1 ELSE 0)

BSub(a, b) == BTrim(BSubC(a, b, 0))

\* a * k for a single limb k
RECURSIVE BMulLimbC(_, _, _)
BMulLimbC(a, k, c) ==
    IF a = <<>> THEN (IF c = 0 THEN <<>> ELSE <<c>>)
    ELSE LET s == a[1] * k + c
         IN  <<s % Base>> \o BMulLimbC(Tail(a), k, s \div Base)

RECURSIVE BMul(_, _)
BMul(a, b) ==
    IF b = <<>> \/ a = <<>> THEN <<>>
    ELSE BAdd(BTrim(BMulLimbC(a, b[1], 0)),
              LET r == BMul(a, Tail(b)) IN IF r = <<>> THEN <<>> ELSE <<0>> \o r)

RECURSIVE IntBitLen(_)
IntBitLen(n) == IF n = 0 THEN 0 ELSE 1 + IntBitLen(n \div 2)

LimbBits == IntBitLen(Base - 1)

\* a * 2^k
RECURSIVE BShl(_, _)
BShl(a, k) ==
    IF a = <<>> THEN <<>>
    ELSE IF k >= LimbBits THEN <<0>> \o BShl(a, k - LimbBits)
    ELSE BTrim(BMulLimbC(a, 2 ^ k, 0))

\* floor(a / 2^k)
RECURSIVE BShr(_, _)
BShr(a, k) ==
    IF a = <<>> THEN <<>>
    ELSE IF k >= LimbBits THEN BShr(Tail(a), k - LimbBits)
    ELSE BTrim([i \in 1..Len(a) |->
                  (a[i] \div (2 ^ k)) + (Limb(a, i + 1) % (2 ^ k)) * (2 ^ (LimbBits - k))])

\* number of significant bits of a
BBitLen(a) == IF a = <<>> THEN 0 ELSE LimbBits * (Len(a) - 1) + IntBitLen(a[Len(a)])

BOdd(a) == a # <<>> /\ a[1] % 2 = 1

(***************************************************************************)
(* Python floats: IEEE-754 doubles.  A finite double is (-1)^neg * m * 2^e *)
(* with m below 2^Precision; the results of arithmetic are normalised      *)
(* (m = 0, or m has exactly Precision bits, also for the subnormal         *)
(* doubles, whose trailing bits are then 0).  A result of magnitude        *)
(* 2^MaxExponent or more after rounding is an infinity; no bit below       *)
(* 2^MinExponent is kept.                                                  *)
(***************************************************************************)
Precision == 53

\* Every finite double is below 2^MaxExponent in magnitude.
MaxExponent == 1024

\* The smallest positive double is 2^MinExponent.
MinExponent == -1074

Fin(neg, m, e) == [k |-> "fin", neg |-> neg, m |-> m, e |-> e]
NaN == [k |-> "nan", neg |-> FALSE, m |-> <<>>, e |-> 0]
Inf(neg) == [k |-> "inf", neg |-> neg, m |-> <<>>, e |-> 0]

\* The double (-1)^neg * r * 2^e, r having at most Precision + 1 bits and, when
\* it has Precision + 1, a last bit of 0; an infinity when it is out of range.
Normalised(neg, r, e) ==
    LET len == BBitLen(r) IN
    IF len = 0 THEN Fin(neg, <<>>, 0)
    ELSE IF e + len > MaxExponent THEN Inf(neg)
    ELSE IF len > Precision THEN Fin(neg, BShr(r, len - Precision), e + (len - Precision))
    ELSE Fin(neg, BShl(r, Precision - len), e - (Precision - len))

\* The double nearest to (-1)^neg * n * 2^e, ties to even.
RoundToDouble(neg, n, e) ==
    LET len  == BBitLen(n)
        drop == len - Precision
        low  == MinExponent - e
        k    == IF drop > low THEN drop ELSE low
    IN  IF k <= 0 THEN Normalised(neg, n, e)
        ELSE LET q    == BShr(n, k)
                 rem  == BSub(n, BShl(q, k))
                 half == BShl(<<1>>, k - 1)
                 c    == BCmp(rem, half)
                 up   == c = 1 \/ (c = 0 /\ BOdd(q))
                 r    == IF up THEN BAdd(q, <<1>>) ELSE q
             IN  Normalised(neg, r, e + k)

\* The magnitudes of two finite doubles on their common exponent.
AlignedMag(a, b) ==
    LET emin == IF a.e < b.e THEN a.e ELSE b.e
    IN  [a |-> BShl(a.m, a.e - emin), b |-> BShl(b.m, b.e - emin), e |-> emin]

\* a < b (Python's float comparison)
FloatLt(a, b) ==
    IF a.k = "nan" \/ b.k = "nan" THEN FALSE
    ELSE IF a.k = "inf" THEN a.neg /\ ~(b.k = "inf" /\ b.neg)
    ELSE IF b.k = "inf" THEN ~b.neg
    ELSE LET al == AlignedMag(a, b)
             c  == BCmp(al.a, al.b)
         IN  IF a.m = <<>> /\ b.m = <<>> THEN FALSE
             ELSE IF a.neg /\ ~b.neg THEN TRUE
             ELSE IF ~a.neg /\ b.neg THEN FALSE
             ELSE IF a.neg THEN c = 1
             ELSE c = -1

\* a - b (Python's float subtraction)
FloatSub(a, b) ==
    IF a.k = "nan" \/ b.k = "nan" THEN NaN
    ELSE IF a.k = "inf" THEN (IF b.k = "inf" /\ a.neg = b.neg THEN NaN ELSE a)
    ELSE IF b.k = "inf" THEN Inf(~b.neg)
    ELSE LET al == AlignedMag(a, b)
         IN  IF a.neg # b.neg
             THEN RoundToDouble(a.neg, BAdd(al.a, al.b), al.e)
             ELSE IF BCmp(al.a, al.b) = 0 THEN Fin(FALSE, <<>>, 0)
             ELSE IF BCmp(al.a, al.b) > 0
             THEN RoundToDouble(a.neg, BSub(al.a, al.b), al.e)
             ELSE RoundToDouble(~a.neg, BSub(al.b, al.a), al.e)

\* a * b (Python's float multiplication)
FloatMul(a, b) ==
    IF a.k = "nan" \/ b.k = "nan" THEN NaN
    ELSE IF a.k = "inf" \/ b.k = "inf"
    THEN (IF (a.k = "fin" /\ a.m = <<>>) \/ (b.k = "fin" /\ b.m = <<>>)
          THEN NaN ELSE Inf(a.neg # b.neg))
    ELSE RoundToDouble(a.neg # b.neg, BMul(a.m, b.m), a.e + b.e)

\* The float an int operand is converted to in int * float.
FloatOfInt(n) == RoundToDouble(n < 0, BFromInt(IF n < 0 THEN -n ELSE n), 0)

\* int(x): truncation toward zero; raises on nan and on the infinities.
IntOfFloat(x) ==
    IF x.k = "nan" THEN [err |-> "ValueError", v |-> 0]
    ELSE IF x.k = "inf" THEN [err |-> "OverflowError", v |-> 0]
    ELSE LET mag == BToInt(IF x.e >= 0 THEN BShl(x.m, x.e) ELSE BShr(x.m, -x.e))
         IN  [err |-> "none", v |-> IF x.neg THEN -mag ELSE mag]

\* The 53-bit significand 0x h3 h2 h1 h0 of a double, from its 16-bit groups.
Sig(h3, h2, h1, h0) ==
    BAdd(BShl(BFromInt(h3), 48),
         BAdd(BShl(BFromInt(h2), 32), BAdd(BShl(BFromInt(h1), 16), BFromInt(h0))))

\* The float literals of configure(): 0.6 = 0x1.3333333333333p-1 and 1.0.
Lit_0_6 == Fin(FALSE, Sig(19, 13107, 13107, 13107), -53)
Lit_1_0 == Fin(FALSE, Sig(16, 0, 0, 0), -52)

(***************************************************************************)
(* The register port drv (pynq MMIO in the repository's script): a memory  *)
(* of 32-bit registers.  A port access can fail: `fuel` = n > 0 means the  *)
(* n-th access from now raises, once; `fuel` = 0 means no access fails.    *)
(*                                                                         *)
(* A driver operation is computed on a port record p:                      *)
(*   regs   the registers                                                  *)
(*   log    the accesses completed so far in this call, in order           *)
(*   out    the lines printed so far in this call                          *)
(*   err    "none", or the exception propagating to the caller: once it is *)
(*          raised no later statement of the call runs                     *)
(*   ret    the value returned by the last read                            *)
(***************************************************************************)
Raised(p) == p.err # "none"

Raise(p, e) == [p EXCEPT !.err = e]

print(p, text, args) ==
    IF Raised(p) THEN p
    ELSE [p EXCEPT !.out = Append(@, [text |-> text, args |-> args])]

drv_read(p, offset) ==
    IF Raised(p) THEN p
    ELSE IF p.fuel = 1 THEN [Raise(p, "PortError") EXCEPT !.fuel = 0]
    ELSE [p EXCEPT !.log = Append(@, [op |-> "read", off |-> offset, val |-> p.regs[offset]]),
                   !.ret = p.regs[offset],
                   !.fuel = IF @ > 1 THEN @ - 1 ELSE @]

drv_write(p, offset, value) ==
    IF Raised(p) THEN p
    ELSE IF p.fuel = 1 THEN [Raise(p, "PortError") EXCEPT !.fuel = 0]
    ELSE [p EXCEPT !.log = Append(@, [op |-> "write", off |-> offset, val |-> value]),
                   !.regs[offset] = value,
                   !.fuel = IF @ > 1 THEN @ - 1 ELSE @]

(***************************************************************************)
(* class AxiPwmCtrl                                                        *)
(***************************************************************************)
\* _read() whose debug trace reads the register once more to print its value.
_read_DebugPeeks(p, offset) ==
    IF p.debug
    THEN drv_read(drv_read(print(p, "Reading offset {}", <<offset>>), offset), offset)
    ELSE drv_read(p, offset)

_read(p, offset) ==
    drv_read(IF p.debug THEN print(p, "Reading offset {}", <<offset>>) ELSE p, offset)

_write(p, offset, value) ==
    drv_write(IF p.debug THEN print(p, "Writing {} to offset {}", <<value, offset>>) ELSE p,
              offset, value)

\* mut_reg_bits() wrapped in a try/except that swallows the port's exception.
mut_reg_bits_Swallow(p, offset, set_mask, unset_mask) ==
    LET p1  == _read(p, offset)
        reg == _unset(_set(p1.ret, set_mask), unset_mask)
    IN  [_write(p1, offset, reg) EXCEPT !.err = p.err]

\* mut_reg_bits() applying the clear mask first, so that the set mask wins.
mut_reg_bits_SetWins(p, offset, set_mask, unset_mask) ==
    LET p1  == _read(p, offset)
        reg == _set(_unset(p1.ret, unset_mask), set_mask)
    IN  _write(p1, offset, reg)

mut_reg_bits(p, offset, set_mask, unset_mask) ==
    LET p1  == _read(p, offset)
        reg == _unset(_set(p1.ret, set_mask), unset_mask)
    IN  _write(p1, offset, reg)

\* mut_reg_bits() computing the value from the register as it is just before
\* the write, as an atomic read-modify-write would.
mut_reg_bits_raced_Reread(p, offset, set_mask, unset_mask, ext) ==
    LET p1  == _read(p, offset)
        p2  == IF Raised(p1) THEN p1 ELSE [p1 EXCEPT !.regs[offset] = ext]
        reg == _unset(_set(p2.regs[offset], set_mask), unset_mask)
    IN  _write(p2, offset, reg)

\* mut_reg_bits() while another agent writes ext to the same register after
\* line 115's read has returned and before line 118's write.
mut_reg_bits_raced(p, offset, set_mask, unset_mask, ext) ==
    LET p1  == _read(p, offset)
        reg == _unset(_set(p1.ret, set_mask), unset_mask)
        p2  == IF Raised(p1) THEN p1 ELSE [p1 EXCEPT !.regs[offset] = ext]
    IN  _write(p2, offset, reg)

\* stop() clearing TCSR_ENIT, the interrupt enable, in place of TCSR_ENT.
stop_WrongBit(p) ==
    LET p1 == mut_reg_bits(p, TCSR0_OF, 0, TCSR_ENIT)
    IN  mut_reg_bits(p1, TCSR1_OF, 0, TCSR_ENIT)

\* stop() with the set and clear masks swapped.
stop_SwappedMasks(p) ==
    LET p1 == mut_reg_bits(p, TCSR0_OF, TCSR_ENT, 0)
    IN  mut_reg_bits(p1, TCSR1_OF, TCSR_ENT, 0)

stop(p) ==
    LET p1 == mut_reg_bits(p, TCSR0_OF, 0, TCSR_ENT)
    IN  mut_reg_bits(p1, TCSR1_OF, 0, TCSR_ENT)

\* reset_counts() whose second pulse is released on channel 0 again.
reset_counts_Chan0Twice(p) ==
    LET p1 == mut_reg_bits(p, TCSR0_OF, TCSR_LOAD, 0)
        p2 == mut_reg_bits(p1, TCSR0_OF, 0, TCSR_LOAD)
        p3 == mut_reg_bits(p2, TCSR1_OF, TCSR_LOAD, 0)
    IN  mut_reg_bits(p3, TCSR0_OF, 0, TCSR_LOAD)

\* reset_counts() pulsing the Load register's offset for channel 0.
reset_counts_WrongOffset(p) ==
    LET p1 == mut_reg_bits(p, TLR0_OF, TCSR_LOAD, 0)
        p2 == mut_reg_bits(p1, TLR0_OF, 0, TCSR_LOAD)
        p3 == mut_reg_bits(p2, TCSR1_OF, TCSR_LOAD, 0)
    IN  mut_reg_bits(p3, TCSR1_OF, 0, TCSR_LOAD)

\* reset_counts() without the second write of each pulse.
reset_counts_NoRelease(p) ==
    LET p1 == mut_reg_bits(p, TCSR0_OF, TCSR_LOAD, 0)
    IN  mut_reg_bits(p1, TCSR1_OF, TCSR_LOAD, 0)

reset_counts(p) ==
    LET p1 == mut_reg_bits(p, TCSR0_OF, TCSR_LOAD, 0)
        p2 == mut_reg_bits(p1, TCSR0_OF, 0, TCSR_LOAD)
        p3 == mut_reg_bits(p2, TCSR1_OF, TCSR_LOAD, 0)
    IN  mut_reg_bits(p3, TCSR1_OF, 0, TCSR_LOAD)

\* start() that sets enable-all-channels on channel 1 as well.
start_EnablesBoth(p) ==
    LET p1 == mut_reg_bits(p, TCSR0_OF, BitOr(TCSR_PWMA, TCSR_GENT), 0)
        p2 == mut_reg_bits(p1, TCSR1_OF, BitOr(TCSR_PWMA, TCSR_GENT), 0)
        p3 == reset_counts(p2)
        p4 == mut_reg_bits(p3, TCSR0_OF, TCSR_ENALL, 0)
    IN  mut_reg_bits(p4, TCSR1_OF, TCSR_ENALL, 0)

start(p) ==
    LET p1 == mut_reg_bits(p, TCSR0_OF, BitOr(TCSR_PWMA, TCSR_GENT), 0)
        p2 == mut_reg_bits(p1, TCSR1_OF, BitOr(TCSR_PWMA, TCSR_GENT), 0)
        p3 == reset_counts(p2)
    IN  mut_reg_bits(p3, TCSR0_OF, TCSR_ENALL, 0)

\* The clamp of lines 76-79 left out.
ClampedDuty_NoClamp(duty_cycle_percent) == duty_cycle_percent

\* Lines 76-82: the duty actually used, then the fraction of "off" time.
ClampedDuty(duty_cycle_percent) ==
    IF FloatLt(duty_cycle_percent, Lit_0_6) THEN Lit_0_6 ELSE duty_cycle_percent

OffFraction(duty_cycle_percent) == FloatSub(Lit_1_0, ClampedDuty(duty_cycle_percent))

\* Line 88: int(self.max_count * duty_cycle_percent)
CompareCount(duty_cycle_percent) ==
    IntOfFloat(FloatMul(FloatOfInt(max_count), OffFraction(duty_cycle_percent)))

\* duty_cycle_percent arguments tried, as doubles.
Duty_m0_5 == Fin(TRUE, Sig(16, 0, 0, 0), -53)                \* -0.5
Duty_0_25 == Fin(FALSE, Sig(16, 0, 0, 0), -54)               \* 0.25
Duty_0_968 == Fin(FALSE, Sig(30, 65278, 65278, 65279), -53)  \* 0.9686274509803922
                                                             \*   = 0x1.efefefefefeffp-1
Duty_1_5 == Fin(FALSE, Sig(24, 0, 0, 0), -52)                \* 1.5

DutyInputs ==
    {Duty_m0_5, Duty_0_25, Lit_0_6, Duty_0_968, Lit_1_0, Duty_1_5, NaN}

\* The two float computations of configure(), evaluated once per argument tried.
BelowFloor == [d \in DutyInputs |-> FloatLt(d, Lit_0_6)]

CompareCountOf == [d \in DutyInputs |-> CompareCount(d)]

\* configure() whose last line names channel 0 again.
configure_Chan0Twice(p, duty_cycle_percent) ==
    LET p1 == stop(p)
        p2 == IF BelowFloor[duty_cycle_percent]
              THEN print(print(p1, "The built in fan will likely stall below 0.6 duty.", <<>>),
                         "0.6 will be used instead.", <<>>)
              ELSE p1
        p3 == mut_reg_bits(p2, TCSR0_OF, BitOr(TCSR_UDT, TCSR_ARHT), BitOr(TCSR_CASC, TCSR_GENT))
        p4 == mut_reg_bits(p3, TCSR1_OF, BitOr(TCSR_UDT, TCSR_ARHT), BitOr(TCSR_CASC, TCSR_GENT))
        p5 == _write(p4, TLR0_OF, max_count)
        cc == CompareCountOf[duty_cycle_percent]
        p6 == IF Raised(p5) THEN p5
              ELSE IF cc.err # "none" THEN Raise(p5, cc.err)
              ELSE _write(p5, TLR1_OF, cc.v)
        p7 == mut_reg_bits(p6, TCSR0_OF, 0, TCSR_CAPT)
    IN  mut_reg_bits(p7, TCSR0_OF, 0, TCSR_CAPT)

configure(p, duty_cycle_percent) ==
    LET p1 == stop(p)
        p2 == IF BelowFloor[duty_cycle_percent]
              THEN print(print(p1, "The built in fan will likely stall below 0.6 duty.", <<>>),
                         "0.6 will be used instead.", <<>>)
              ELSE p1
        p3 == mut_reg_bits(p2, TCSR0_OF, BitOr(TCSR_UDT, TCSR_ARHT), BitOr(TCSR_CASC, TCSR_GENT))
        p4 == mut_reg_bits(p3, TCSR1_OF, BitOr(TCSR_UDT, TCSR_ARHT), BitOr(TCSR_CASC, TCSR_GENT))
        p5 == _write(p4, TLR0_OF, max_count)
        cc == CompareCountOf[duty_cycle_percent]
        p6 == IF Raised(p5) THEN p5
              ELSE IF cc.err # "none" THEN Raise(p5, cc.err)
              ELSE _write(p5, TLR1_OF, cc.v)
        p7 == mut_reg_bits(p6, TCSR0_OF, 0, TCSR_CAPT)
    IN  mut_reg_bits(p7, TCSR1_OF, 0, TCSR_CAPT)

(***************************************************************************)
(* The state machine.                                                      *)
(***************************************************************************)
VARIABLES
    regs,   \* the registers behind the port, by byte offset
    debug,  \* self.debug
    fuel,   \* the port's fault plan (see above)
    call,   \* the last call: operation, argument, registers and fault plan before it,
            \* its accesses and printed lines, and its outcome
    prev,   \* the call before it: operation, argument and outcome, and its accesses
            \* when it was a stop()
    boot,   \* the registers as the constructor found them
    first,  \* the duty of the first configure() that returned and was followed
            \* at once by a start() that returned; NoArg until then
    prim    \* the arguments of the last direct call of mut_reg_bits(), and the
            \* value another agent wrote during it, if one did

vars == <<regs, debug, fuel, call, prev, boot, first, prim>>

\* Bound: the port fault, if any, hits one of the first MaxFaultAt accesses.
MaxFaultAt == 14

\* The argument slot of an operation that takes none.
NoArg == [k |-> "none", neg |-> FALSE, m |-> <<>>, e |-> 0]

RegFile(csr0, tlr0, csr1, tlr1) ==
    [o \in Offsets |-> CASE o = TCSR0_OF -> csr0
                         [] o = TLR0_OF  -> tlr0
                         [] o = TCSR1_OF -> csr1
                         [] o = TLR1_OF  -> tlr1
                         [] OTHER        -> 0]

AllFlags == 2 ^ 12 - 1

\* Register contents the driver can find when it is constructed: the hardware
\* reset values, and what earlier software can have left behind.
InitRegs ==
    { RegFile(0, 0, 0, 0),
      RegFile(BitOr(TCSR_ENT, TCSR_ENALL), 0, TCSR_ENT, 0),
      RegFile(BitOr(TCSR_MDT, TCSR_CAPT), 255, BitOr(TCSR_MDT, TCSR_LOAD), 77),
      RegFile(BitOr(TCSR_LOAD, TCSR_ENIT), 65535, TCSR_TINT, 0),
      RegFile(AllFlags, 0, AllFlags + 2 ^ 20, 0) }

\* No direct call of mut_reg_bits() yet.
NoPrim == [off |-> TCSR0_OF, set |-> 0, clear |-> 0, raced |-> FALSE, ext |-> 0]

Init ==
    /\ regs \in InitRegs
    /\ debug \in BOOLEAN
    /\ fuel \in 0..MaxFaultAt
    /\ call = [op |-> "init", arg |-> NoArg, pre |-> regs, fuel |-> fuel, log |-> <<>>,
               out |-> <<>>, err |-> "none"]
    /\ prev = [op |-> "init", arg |-> NoArg, err |-> "none", log |-> <<>>]
    /\ boot = regs
    /\ first = NoArg
    /\ prim = NoPrim

\* A port with registers r and fault plan f, before a call's first statement.
PortAt(r, f, dbg) ==
    [regs |-> r, log |-> <<>>, out |-> <<>>, err |-> "none", ret |-> 0, fuel |-> f,
     debug |-> dbg]

\* The port as a call finds it.
Enter == PortAt(regs, fuel, debug)

\* The call returns, or raises p.err, leaving the port as p.
Return(op, arg, p) ==
    /\ regs' = p.regs
    /\ fuel' = p.fuel
    /\ call' = [op |-> op, arg |-> arg, pre |-> regs, fuel |-> fuel, log |-> p.log,
                out |-> p.out, err |-> p.err]
    /\ prev' = [op |-> call.op, arg |-> call.arg, err |-> call.err,
                log |-> IF call.op = "stop" THEN call.log ELSE <<>>]
    /\ first' = IF /\ first = NoArg
                   /\ op = "start" /\ p.err = "none"
                   /\ call.op = "configure" /\ call.err = "none"
                THEN call.arg
                ELSE first
    /\ UNCHANGED boot
    /\ UNCHANGED debug

Configure(d) == Return("configure", d, configure(Enter, d)) /\ UNCHANGED prim

Start == Return("start", NoArg, start(Enter)) /\ UNCHANGED prim

Stop == Return("stop", NoArg, stop(Enter)) /\ UNCHANGED prim

ResetCounts == Return("reset_counts", NoArg, reset_counts(Enter)) /\ UNCHANGED prim

Next ==
    \/ \E d \in DutyInputs : Configure(d)
    \/ Start
    \/ Stop
    \/ ResetCounts

Spec == Init /\ [][Next]_vars

\* The same driver constructed over registers at their hardware-reset values.
InitReset == Init /\ regs = RegFile(0, 0, 0, 0)

SpecReset == InitReset /\ [][Next]_vars

(***************************************************************************)
(* mut_reg_bits() called directly, once per behaviour, on a controller     *)
(* just constructed: the register contents, the offset, the masks and the  *)
(* value written by another agent are drawn from the sets below.           *)
(***************************************************************************)
HighBits == 2 ^ 30 + 2 ^ 20

PrimRegs ==
    { RegFile(0, 255, AllFlags, 77),
      RegFile(BitOr(TCSR_ENT, TCSR_LOAD), 255, 0, 77),
      RegFile(AllFlags, 255, HighBits + TCSR_MDT, 77),
      RegFile(HighBits + TCSR_MDT, 255, BitOr(TCSR_ENT, TCSR_LOAD), 77) }

PrimOffsets == {TCSR0_OF, TCSR1_OF, TLR1_OF}

PrimMasks == {0, TCSR_ENT, BitOr(TCSR_ENT, TCSR_LOAD), AllFlags, HighBits}

ExtValues == {0, TCSR_ENALL, HighBits + TCSR_UDT}

\* The accesses of one mut_reg_bits() call.
MutLen == Len(mut_reg_bits(PortAt(RegFile(0, 0, 0, 0), 0, FALSE), TCSR0_OF, 0, 0).log)

InitPrim ==
    /\ regs \in PrimRegs
    /\ debug \in BOOLEAN
    /\ fuel \in 0..MutLen
    /\ call = [op |-> "init", arg |-> NoArg, pre |-> regs, fuel |-> fuel, log |-> <<>>,
               out |-> <<>>, err |-> "none"]
    /\ prev = [op |-> "init", arg |-> NoArg, err |-> "none", log |-> <<>>]
    /\ boot = regs
    /\ first = NoArg
    /\ prim = NoPrim

\* The direct call returns, or raises p.err, leaving the port as p.
PrimReturn(p, args) ==
    /\ call.op = "init"
    /\ regs' = p.regs
    /\ fuel' = p.fuel
    /\ call' = [op |-> "mut_reg_bits", arg |-> NoArg, pre |-> regs, fuel |-> fuel,
                log |-> p.log, out |-> p.out, err |-> p.err]
    /\ prev' = [op |-> call.op, arg |-> call.arg, err |-> call.err, log |-> <<>>]
    /\ prim' = args
    /\ UNCHANGED <<debug, boot, first>>

MutRegBits(off, set_mask, unset_mask) ==
    PrimReturn(mut_reg_bits(Enter, off, set_mask, unset_mask),
               [off |-> off, set |-> set_mask, clear |-> unset_mask, raced |-> FALSE,
                ext |-> 0])

RacedMutRegBits(off, set_mask, unset_mask, ext) ==
    PrimReturn(mut_reg_bits_raced(Enter, off, set_mask, unset_mask, ext),
               [off |-> off, set |-> set_mask, clear |-> unset_mask, raced |-> TRUE,
                ext |-> ext])

NextPrim ==
    \/ \E off \in PrimOffsets, s \in PrimMasks, c \in PrimMasks : MutRegBits(off, s, c)
    \/ \E off \in PrimOffsets, s \in PrimMasks, c \in PrimMasks, v \in ExtValues :
          RacedMutRegBits(off, s, c, v)

SpecPrim == InitPrim /\ [][NextPrim]_vars

(***************************************************************************)
(* Reading a call's record.                                                *)
(***************************************************************************)
CSROffsets == {TCSR0_OF, TCSR1_OF}
LoadOffsets == {TLR0_OF, TLR1_OF}

Has(value, mask) == BitAnd(value, mask) # 0

IsWrite(a) == a.op = "write"

\* The values written to register off, in order.
RECURSIVE WritesTo(_, _)
WritesTo(log, off) ==
    IF log = <<>> THEN <<>>
    ELSE (IF IsWrite(log[1]) /\ log[1].off = off THEN <<log[1].val>> ELSE <<>>)
         \o WritesTo(Tail(log), off)

\* The writes of a log, in order.
RECURSIVE Writes(_)
Writes(log) ==
    IF log = <<>> THEN <<>>
    ELSE (IF IsWrite(log[1]) THEN <<log[1]>> ELSE <<>>) \o Writes(Tail(log))

\* The registers after the first n accesses of log, starting from pre.
RECURSIVE RegsAfter(_, _, _)
RegsAfter(pre, log, n) ==
    IF n = 0 THEN pre
    ELSE LET r == RegsAfter(pre, log, n - 1)
         IN  IF IsWrite(log[n]) THEN [r EXCEPT ![log[n].off] = log[n].val] ELSE r

Returned(op) == call.op = op /\ call.err = "none"

(***************************************************************************)
(* C1: in every call of configure(), the writes that clear channel-enable  *)
(* on both Control/Status registers are issued before the first write to   *)
(* either Load register.                                                   *)
(***************************************************************************)
C1_StopBeforeLoad ==
    call.op = "configure" =>
        \A j \in 1..Len(call.log) :
            (IsWrite(call.log[j]) /\ call.log[j].off \in LoadOffsets) =>
                \A c \in CSROffsets :
                    \E i \in 1..(j - 1) :
                        /\ IsWrite(call.log[i])
                        /\ call.log[i].off = c
                        /\ ~Has(call.log[i].val, TCSR_ENT)

\* configure() returned after a start(), both channels had channel-enable set
\* when it was called, and both Load registers were written.
C1_Witness ==
    /\ Returned("configure")
    /\ prev.op = "start"
    /\ \A c \in CSROffsets : Has(call.pre[c], TCSR_ENT)
    /\ \A l \in LoadOffsets : WritesTo(call.log, l) # <<>>

(***************************************************************************)
(* C2: from the end of configure()'s stop step until configure() returns,  *)
(* neither Control/Status register has channel-enable or                   *)
(* enable-all-channels set; stated for configure() called after a start()  *)
(* that returned.                                                          *)
(***************************************************************************)
NoEnableBit(r) ==
    \A c \in CSROffsets : ~Has(r[c], BitOr(TCSR_ENT, TCSR_ENALL))

\* stop() makes four accesses: the stop step of configure() ends with the fourth.
StopStepEnd == Len(stop(PortAt(RegFile(0, 0, 0, 0), 0, FALSE)).log)

C2_DisabledThroughConfigure ==
    (Returned("configure") /\ prev.op = "start" /\ prev.err = "none") =>
        \A j \in StopStepEnd..Len(call.log) :
            NoEnableBit(RegsAfter(call.pre, call.log, j))

(***************************************************************************)
(* C3: in every call of start(), no write carrying enable-all-channels     *)
(* reaches a Control/Status register until PWM-enable and                  *)
(* external-generate-enable have been written on both channels and         *)
(* reset_counts() has completed; the enable-all-channels write to channel  *)
(* 0 is the last write of start().                                         *)
(***************************************************************************)
\* Accesses 1-4 of start() are the two mode-bit read-modify-writes, 5-12 are
\* reset_counts(), 13-14 the read-modify-write that sets enable-all-channels.
StartLen == Len(start(PortAt(RegFile(0, 0, 0, 0), 0, FALSE)).log)

C3_EnableAllLast ==
    call.op = "start" =>
        /\ \A i \in 1..Len(call.log) :
              (/\ IsWrite(call.log[i])
               /\ call.log[i].off \in CSROffsets
               /\ Has(call.log[i].val, TCSR_ENALL))
              => (/\ i = StartLen
                  /\ call.log[i].off = TCSR0_OF
                  /\ \A c \in CSROffsets :
                        \E k \in 1..(i - 1) :
                            /\ IsWrite(call.log[k]) /\ call.log[k].off = c
                            /\ Has(call.log[k].val, TCSR_PWMA)
                            /\ Has(call.log[k].val, TCSR_GENT))
        /\ call.err = "none" =>
              /\ Len(call.log) = StartLen
              /\ IsWrite(call.log[StartLen])
              /\ call.log[StartLen].off = TCSR0_OF
              /\ Has(call.log[StartLen].val, TCSR_ENALL)

(***************************************************************************)
(* C4: configure(d) with d < 0.6 issues exactly the same sequence of       *)
(* register reads and writes as configure(0.6) from the same register      *)
(* state (and under the same port fault plan); configure(0.25) writes 255  *)
(* to Load register 0 and 102 to Load register 1.                          *)
(***************************************************************************)
C4_ClampToFloor ==
    (call.op = "configure" /\ FloatLt(call.arg, Lit_0_6)) =>
        /\ call.log = configure(PortAt(call.pre, call.fuel, debug), Lit_0_6).log
        /\ (call.err = "none" /\ call.arg = Duty_0_25) =>
              /\ WritesTo(call.log, TLR0_OF) = <<255>>
              /\ WritesTo(call.log, TLR1_OF) = <<102>>

\* configure(0.25) returned.
C4_Witness ==
    /\ Returned("configure")
    /\ call.arg = Duty_0_25
    /\ WritesTo(call.log, TLR1_OF) # <<>>

(***************************************************************************)
(* C5: for every duty_cycle_percent in [0.6, 1.0], configure() writes      *)
(* PeriodCount to Load register 0 and exactly                              *)
(* floor(PeriodCount * (1 - duty_cycle_percent)) to Load register 1.       *)
(***************************************************************************)
InUnitRange(d) ==
    d.k = "fin" /\ ~FloatLt(d, Lit_0_6) /\ ~FloatLt(Lit_1_0, d)

\* floor(n * (1 - d)) in exact arithmetic, for a double d = m * 2^e in [0.6, 1.0]
\* (so e < 0 and m <= 2^-e): floor(n * (2^-e - m) / 2^-e).
ExactFloor(n, d) ==
    BToInt(BShr(BMul(BFromInt(n), BSub(BShl(<<1>>, -d.e), d.m)), -d.e))

C5_ExactCompareCount ==
    (Returned("configure") /\ InUnitRange(call.arg)) =>
        /\ WritesTo(call.log, TLR0_OF) = <<max_count>>
        /\ WritesTo(call.log, TLR1_OF) = <<ExactFloor(max_count, call.arg)>>

(***************************************************************************)
(* C6: for every duty_cycle_percent argument, including values below 0.0   *)
(* and above 1.0, configure() completes without error (the port not        *)
(* failing) and the value it writes to Load register 1 is an integer in    *)
(* 0..PeriodCount; stated for the finite arguments.                        *)
(***************************************************************************)
C6_CompareCountInRange ==
    (call.op = "configure" /\ call.arg.k = "fin" /\ call.err # "PortError") =>
        /\ call.err = "none"
        /\ \A i \in 1..Len(call.log) :
              (IsWrite(call.log[i]) /\ call.log[i].off = TLR1_OF) =>
                  call.log[i].val \in 0..max_count

(***************************************************************************)
(* C7 as stated: reset_counts() issues, per channel, exactly two writes,   *)
(* both to that channel's Control/Status offset: the first has             *)
(* load-request set, the second is identical to the value the register     *)
(* held before reset_counts() touched it.                                  *)
(***************************************************************************)
OnlyCSRWritten(log) ==
    \A i \in 1..Len(log) : IsWrite(log[i]) => log[i].off \in CSROffsets

C7_SecondWriteIsOriginal ==
    Returned("reset_counts") =>
        /\ OnlyCSRWritten(call.log)
        /\ \A c \in CSROffsets :
              LET w == WritesTo(call.log, c)
              IN  /\ Len(w) = 2
                  /\ Has(w[1], TCSR_LOAD)
                  /\ w[2] = call.pre[c]

(***************************************************************************)
(* C7 amended: reset_counts() issues, per channel, exactly two writes,     *)
(* both to that channel's Control/Status offset: the first has             *)
(* load-request set and every other bit as the register held it before the *)
(* call, the second has load-request clear and every other bit as before   *)
(* the call (so it is the prior value exactly when load-request was clear  *)
(* before the call).                                                       *)
(***************************************************************************)
\* v and w agree on every bit but load-request (bit positions 0..30: the values
\* of the model stay below 2^31).
SameButLoad(v, w) ==
    \A b \in 0..30 : _bit(b) # TCSR_LOAD => (Has(v, _bit(b)) <=> Has(w, _bit(b)))

C7_LoadPulse ==
    Returned("reset_counts") =>
        /\ OnlyCSRWritten(call.log)
        /\ \A c \in CSROffsets :
              LET w == WritesTo(call.log, c)
              IN  /\ Len(w) = 2
                  /\ Has(w[1], TCSR_LOAD) /\ SameButLoad(w[1], call.pre[c])
                  /\ ~Has(w[2], TCSR_LOAD) /\ SameButLoad(w[2], call.pre[c])
                  /\ ~Has(call.pre[c], TCSR_LOAD) => w[2] = call.pre[c]

\* reset_counts() returned; load-request was set on channel 0 and clear on
\* channel 1 when it was called.
C7_Witness ==
    /\ Returned("reset_counts")
    /\ Has(call.pre[TCSR0_OF], TCSR_LOAD)
    /\ ~Has(call.pre[TCSR1_OF], TCSR_LOAD)
    /\ call.pre[TCSR1_OF] # 0

(***************************************************************************)
(* C8: two consecutive stop() calls issue the same writes (offsets 0x0 and *)
(* 0x10, same values) in each call, and the register state after the       *)
(* second call equals the state after the first.                           *)
(***************************************************************************)
C8_StopIdempotent ==
    (Returned("stop") /\ prev.op = "stop" /\ prev.err = "none") =>
        /\ Writes(call.log) = Writes(prev.log)
        /\ Len(Writes(call.log)) = 2
        /\ Writes(call.log)[1].off = TCSR0_OF
        /\ Writes(call.log)[2].off = TCSR1_OF
        /\ regs = call.pre

\* The second of two stop() calls returned; the first found both channels
\* enabled.
C8_Witness ==
    /\ Returned("stop")
    /\ prev.op = "stop" /\ prev.err = "none"
    /\ \A i \in 1..Len(prev.log) :
          prev.log[i].op = "read" => Has(prev.log[i].val, TCSR_ENT)

(***************************************************************************)
(* C9: after configure() returns, for any initial contents of the          *)
(* Control/Status registers, both channels have the mode bit at generate   *)
(* (bit 0 clear) and external-capture-enable clear.                        *)
(***************************************************************************)
C9_GenerateMode ==
    Returned("configure") =>
        \A c \in CSROffsets : ~Has(regs[c], TCSR_MDT) /\ ~Has(regs[c], TCSR_CAPT)

(***************************************************************************)
(* C10: if a port read or write fails during configure(), start(), stop()  *)
(* or reset_counts(), the call ends in that error, makes no further        *)
(* register access and no retry, and the registers hold exactly what the   *)
(* writes completed before the failure produced.                           *)
(***************************************************************************)
Perform(op, arg, p) ==
    CASE op = "configure"    -> configure(p, arg)
      [] op = "start"        -> start(p)
      [] op = "stop"         -> stop(p)
      [] op = "reset_counts" -> reset_counts(p)
      [] OTHER               -> p

\* The accesses the last call makes when the port does not fail.
FaultFreeLog == Perform(call.op, call.arg, PortAt(call.pre, 0, debug)).log

C10_PortFailureIsFatal ==
    call.op # "init" =>
        /\ (call.fuel \in 1..Len(FaultFreeLog)) <=> (call.err = "PortError")
        /\ call.err = "PortError" =>
              /\ call.log = SubSeq(FaultFreeLog, 1, call.fuel - 1)
              /\ regs = RegsAfter(call.pre, call.log, Len(call.log))
              /\ fuel = 0

\* configure() ended in a port error after its stop step and at least one
\* Load write: the writes made so far stay in the registers.
C10_Witness ==
    /\ call.op = "configure"
    /\ call.err = "PortError"
    /\ WritesTo(call.log, TLR0_OF) # <<>>
    /\ regs # call.pre

(***************************************************************************)
(* C11: a controller with debug enabled and one with debug disabled issue  *)
(* the same sequence of port reads and writes and end in the same register *)
(* state: every call made equals, in accesses, outcome and registers, the  *)
(* same call made from the same registers and fault plan with the flag     *)
(* the other way.                                                          *)
(***************************************************************************)
OtherDebug == Perform(call.op, call.arg, PortAt(call.pre, call.fuel, ~debug))

C11_DebugObservabilityOnly ==
    call.op # "init" =>
        /\ call.log = OtherDebug.log
        /\ call.err = OtherDebug.err
        /\ regs = OtherDebug.regs
        /\ fuel = OtherDebug.fuel

\* configure() returned with debug enabled and traced its accesses.
C11_Witness ==
    /\ Returned("configure")
    /\ debug
    /\ Len(call.out) >= Len(call.log)
    /\ call.log # <<>>

(***************************************************************************)
(* C12: when start() is called after configure(), no write it issues to    *)
(* channel 1's Control/Status register (0x10) has channel-enable or        *)
(* enable-all-channels set; the only enable bit start() sets is            *)
(* enable-all-channels on channel 0.                                       *)
(***************************************************************************)
C12_Channel1NeverEnabled ==
    (call.op = "start" /\ prev.op = "configure" /\ prev.err = "none") =>
        /\ \A i \in 1..Len(call.log) :
              (IsWrite(call.log[i]) /\ call.log[i].off = TCSR1_OF) =>
                  ~Has(call.log[i].val, BitOr(TCSR_ENT, TCSR_ENALL))
        /\ \A c \in CSROffsets :
              /\ Has(regs[c], TCSR_ENT) => Has(call.pre[c], TCSR_ENT)
              /\ (Has(regs[c], TCSR_ENALL) /\ ~Has(call.pre[c], TCSR_ENALL)) => c = TCSR0_OF

(***************************************************************************)
(* C13: start() called on a freshly constructed controller, with no prior  *)
(* configure(), over hardware-reset registers (all zero) does not raise    *)
(* (the port not failing), writes no Load register, and leaves channel 0's *)
(* Control/Status with exactly PWM-enable, external-generate-enable and    *)
(* enable-all-channels set and channel 1's with exactly PWM-enable and     *)
(* external-generate-enable set.                                           *)
(***************************************************************************)
C13_StartFromReset ==
    (/\ call.op = "start"
     /\ prev.op = "init"
     /\ call.pre = RegFile(0, 0, 0, 0)
     /\ call.err # "PortError") =>
        /\ call.err = "none"
        /\ \A l \in LoadOffsets : WritesTo(call.log, l) = <<>>
        /\ regs[TCSR0_OF] = TCSR_PWMA + TCSR_GENT + TCSR_ENALL
        /\ regs[TCSR1_OF] = TCSR_PWMA + TCSR_GENT
        /\ \A l \in LoadOffsets : regs[l] = 0

\* start() was the first call on hardware-reset registers and returned.
C13_Witness ==
    /\ Returned("start")
    /\ prev.op = "init"
    /\ call.pre = RegFile(0, 0, 0, 0)
    /\ Len(call.log) = StartLen

(***************************************************************************)
(* C14: after configure() returns, for any initial register contents and   *)
(* any duty-cycle argument, both Control/Status registers have             *)
(* count-direction and auto-reload-and-hold set and cascade-enable,        *)
(* external-generate-enable, external-capture-enable and channel-enable    *)
(* clear; the two channels are treated identically (each keeps its other   *)
(* bits).                                                                  *)
(***************************************************************************)
ConfigureSets == {TCSR_UDT, TCSR_ARHT}
ConfigureClears == {TCSR_CASC, TCSR_GENT, TCSR_CAPT, TCSR_ENT}

\* Bit positions of a register value (the values of the model stay below 2^31).
BitPositions == 0..30

C14_ConfiguredBits ==
    Returned("configure") =>
        \A c \in CSROffsets :
            /\ \A b \in ConfigureSets : Has(regs[c], b)
            /\ \A b \in ConfigureClears : ~Has(regs[c], b)
            /\ \A n \in BitPositions :
                  _bit(n) \notin (ConfigureSets \cup ConfigureClears) =>
                      (Has(regs[c], _bit(n)) <=> Has(call.pre[c], _bit(n)))

\* configure() returned; before it both channels had every bit it clears set.
C14_Witness ==
    /\ Returned("configure")
    /\ \A c \in CSROffsets : \A b \in ConfigureClears : Has(call.pre[c], b)
    /\ \A c \in CSROffsets : \A b \in ConfigureClears : ~Has(regs[c], b)

(***************************************************************************)
(* C17: no channel is left held in reload: after reset_counts() or start() *)
(* returns, the load-request bit is clear in both Control/Status           *)
(* registers, whatever the registers held at the call (load-request        *)
(* already set included).                                                  *)
(***************************************************************************)
C17_LoadReleased ==
    (Returned("reset_counts") \/ Returned("start")) =>
        \A c \in CSROffsets : ~Has(regs[c], TCSR_LOAD)

\* reset_counts() returned after being called with load-request set in both.
C17_Witness ==
    /\ Returned("reset_counts")
    /\ \A c \in CSROffsets : Has(call.pre[c], TCSR_LOAD)

(***************************************************************************)
(* C18: start(), stop() and reset_counts() never write a Load register, so *)
(* the period and compare values latched by the last configure() are       *)
(* unchanged across them; and no operation reads or writes the Counter     *)
(* registers (0x8, 0x18) or any offset other than 0x0, 0x4, 0x10, 0x14.    *)
(***************************************************************************)
UsedOffsets == CSROffsets \cup LoadOffsets

C18_RegisterFrame ==
    /\ call.op \in {"start", "stop", "reset_counts"} =>
          /\ \A i \in 1..Len(call.log) : call.log[i].off \notin LoadOffsets
          /\ \A l \in LoadOffsets : regs[l] = call.pre[l]
    /\ call.op # "init" =>
          /\ \A i \in 1..Len(call.log) : call.log[i].off \in UsedOffsets
          /\ \A o \in Offsets \ UsedOffsets : regs[o] = call.pre[o]

\* stop() returned after a start() that followed configure(0.6): the Load
\* registers still hold the period and the compare value of that configure().
C18_Witness ==
    /\ Returned("stop")
    /\ prev.op = "start"
    /\ prev.err = "none"
    /\ call.pre[TLR0_OF] = max_count
    /\ call.pre[TLR1_OF] = CompareCountOf[Lit_0_6].v
    /\ regs[TLR1_OF] = CompareCountOf[Lit_0_6].v

(***************************************************************************)
(* C19: in each Control/Status register every operation changes only the   *)
(* bits named in its masks and writes every other bit back as read: stop() *)
(* only channel-enable; configure() only channel-enable, count-direction,  *)
(* auto-reload-and-hold, cascade-enable, external-generate-enable and      *)
(* external-capture-enable; start() only PWM-enable,                       *)
(* external-generate-enable, load-request and, on channel 0 only,          *)
(* enable-all-channels (reset_counts() alone only load-request).           *)
(* Interrupt-flag, interrupt-enable and mode bits are never changed.       *)
(***************************************************************************)
MayChange(op, c) ==
    CASE op = "stop" -> {TCSR_ENT}
      [] op = "configure" ->
            {TCSR_ENT, TCSR_UDT, TCSR_ARHT, TCSR_CASC, TCSR_GENT, TCSR_CAPT}
      [] op = "start" ->
            {TCSR_PWMA, TCSR_GENT, TCSR_LOAD}
                \cup (IF c = TCSR0_OF THEN {TCSR_ENALL} ELSE {})
      [] op = "reset_counts" -> {TCSR_LOAD}
      [] OTHER -> {}

NeverChanged == {TCSR_TINT, TCSR_ENIT, TCSR_MDT}

\* v and w agree on every bit outside the set of masks may.
SameOutside(v, w, may) ==
    \A n \in BitPositions : _bit(n) \notin may => (Has(v, _bit(n)) <=> Has(w, _bit(n)))

C19_BitFrame ==
    call.op # "init" =>
        \A c \in CSROffsets :
            /\ MayChange(call.op, c) \cap NeverChanged = {}
            /\ SameOutside(regs[c], call.pre[c], MayChange(call.op, c))
            /\ \A i \in 1..Len(call.log) :
                  (IsWrite(call.log[i]) /\ call.log[i].off = c) =>
                      SameOutside(call.log[i].val, call.pre[c], MayChange(call.op, c))

\* start() returned and changed both Control/Status registers, which held
\* interrupt-flag, interrupt-enable, mode and a bit above the flags.
C19_Witness ==
    /\ Returned("start")
    /\ \A c \in CSROffsets :
          /\ regs[c] # call.pre[c]
          /\ \A b \in NeverChanged : Has(call.pre[c], b)
    /\ call.pre[TCSR1_OF] > AllFlags

(***************************************************************************)
(* C20: the running configuration depends only on the last requested duty  *)
(* cycle, not on history: whenever start() returns right after a           *)
(* configure(d2) that returned, the registers (both Control/Status and     *)
(* both Load registers) are those of configure(d2); start() run on the     *)
(* registers the controller was constructed over, whatever calls came in   *)
(* between -- an earlier configure(d1); start(), stop() calls anywhere     *)
(* before the final configure(d2).                                         *)
(***************************************************************************)
FreshCycle(d) == start(configure(PortAt(boot, 0, debug), d))

C20_LastDutyOnly ==
    (Returned("start") /\ prev.op = "configure" /\ prev.err = "none") =>
        /\ FreshCycle(prev.arg).err = "none"
        /\ regs = FreshCycle(prev.arg).regs

\* start() returned after configure(d2), and an earlier configure(d1); start()
\* with another compare count had run before.
C20_Witness ==
    /\ Returned("start")
    /\ prev.op = "configure"
    /\ prev.err = "none"
    /\ first # NoArg
    /\ first # prev.arg
    /\ CompareCountOf[first].v # CompareCountOf[prev.arg].v

(***************************************************************************)
(* C15: mut_reg_bits(offset, set_mask, clear_mask) performs exactly one    *)
(* read followed by exactly one write, both at the given offset, and the   *)
(* value written is (value_read OR set_mask) AND NOT clear_mask for every  *)
(* value and pair of masks (the clear wins where they overlap); and every  *)
(* Control/Status access of configure/start/stop/reset_counts is part of   *)
(* such a pair: a read followed at once by a write to the same offset.     *)
(***************************************************************************)
PrimCall == call.op = "mut_reg_bits"

\* w is (r OR set) AND NOT clear, bit by bit.
IsMutated(w, r, set, clear) ==
    \A n \in BitPositions :
        Has(w, _bit(n)) <=> ((Has(r, _bit(n)) \/ Has(set, _bit(n))) /\ ~Has(clear, _bit(n)))

\* Every Control/Status write of the log follows a read of the same offset and
\* every Control/Status read is followed by a write to it, or by the port error
\* that ended the call.
InPairs(log) ==
    \A i \in 1..Len(log) :
        log[i].off \in CSROffsets =>
            IF IsWrite(log[i])
            THEN i > 1 /\ ~IsWrite(log[i - 1]) /\ log[i - 1].off = log[i].off
            ELSE i = Len(log) \/ (IsWrite(log[i + 1]) /\ log[i + 1].off = log[i].off)

Operations ==
    {<<"start", NoArg>>, <<"stop", NoArg>>, <<"reset_counts", NoArg>>}
        \cup {<<"configure", d>> : d \in DutyInputs}

C15_ReadModifyWrite ==
    /\ (PrimCall /\ ~prim.raced /\ call.err = "none") =>
          /\ Len(call.log) = 2
          /\ call.log[1] = [op |-> "read", off |-> prim.off, val |-> call.pre[prim.off]]
          /\ IsWrite(call.log[2])
          /\ call.log[2].off = prim.off
          /\ IsMutated(call.log[2].val, call.log[1].val, prim.set, prim.clear)
          /\ regs = [call.pre EXCEPT ![prim.off] = call.log[2].val]
    /\ (PrimCall /\ ~prim.raced /\ call.err # "none") =>
          /\ call.err = "PortError"
          /\ regs = call.pre
          /\ call.log \in {<<>>, <<[op |-> "read", off |-> prim.off,
                                    val |-> call.pre[prim.off]]>>}
    /\ \A o \in Operations : \A f \in {0, fuel} :
          InPairs(Perform(o[1], o[2], PortAt(regs, f, debug)).log)

\* A call with overlapping masks returned and changed the register.
C15_Witness ==
    /\ PrimCall
    /\ ~prim.raced
    /\ call.err = "none"
    /\ Has(prim.set, prim.clear)
    /\ prim.set # prim.clear
    /\ regs[prim.off] # call.pre[prim.off]
    /\ regs[prim.off] # 0

(***************************************************************************)
(* C16: mut_reg_bits is a non-atomic read-modify-write: when another agent *)
(* writes the same register between the read and the write of one call,    *)
(* that write is silently lost: after the call the register holds (value   *)
(* read before the external write OR set_mask) AND NOT clear_mask, as      *)
(* after the same call with no external write, and no error is reported.   *)
(***************************************************************************)
Unraced == mut_reg_bits(PortAt(call.pre, call.fuel, debug), prim.off, prim.set, prim.clear)

C16_ExternalWriteLost ==
    (PrimCall /\ prim.raced) =>
        /\ call.err = Unraced.err
        /\ call.log = Unraced.log
        /\ call.err = "none" =>
              /\ IsMutated(regs[prim.off], call.pre[prim.off], prim.set, prim.clear)
              /\ regs = Unraced.regs

\* A raced call returned; the value the other agent wrote was neither the
\* register's value before the call nor its value after it.
C16_Witness ==
    /\ PrimCall
    /\ prim.raced
    /\ call.err = "none"
    /\ prim.ext # call.pre[prim.off]
    /\ prim.ext # regs[prim.off]
    /\ prim.off \in CSROffsets
    /\ prim.set # 0
    /\ prim.clear # 0

====
